---- MODULE Spec2Model ----
(***************************************************************************)
(* Model of src/app.py: decode_secure_qr from the point where the          *)
(* decompressed byte buffer exists (line 34) to its return (line 102),     *)
(* and the try/except of upload_qr that turns the outcome into a response  *)
(* (lines 131-135).                                                        *)
(*                                                                         *)
(* Bytes are integers 0..255, a bytes object is a sequence of them, and a  *)
(* str is a sequence of code points.  Offsets are 0-based as in the code:  *)
(* offset i of a buffer is element i+1 of the sequence.                    *)
(***************************************************************************)
EXTENDS Integers, Sequences, FiniteSets

VARIABLES decompressed, delimiter_positions, text_fields, indicator,
          result, error, response, pc, source

vars == <<decompressed, delimiter_positions, text_fields, indicator,
          result, error, response, pc, source>>

-----------------------------------------------------------------------------
(* Program constants *)

delimiter == 255
NumDelimiters == 16
SignatureLen == 256
BlockLen == 32

keys == << "indicator", "referenceId", "name", "dob", "gender",
           "care_of", "district", "landmark", "house", "location",
           "pin_code", "post_office", "state", "street", "sub_district", "VTC" >>

MsgNotEnough == "Not enough delimiters found; expected 16 text fields."
MsgFieldCount == "Unexpected number of text fields extracted."
MsgIndicator == "Invalid indicator value: "

-----------------------------------------------------------------------------
(* Python built-ins the function relies on *)

Min(a, b) == IF a < b THEN a ELSE b
Max(a, b) == IF a > b THEN a ELSE b

\* A slice bound as Python normalises it: a negative bound counts from the
\* end, and every bound is clamped into 0..n.  Slicing never raises.
PyIndex(i, n) == IF i < 0 THEN Max(i + n, 0) ELSE Min(i, n)

\* s[lo:hi]
PySlice(s, lo, hi) ==
    LET a == PyIndex(lo, Len(s))
        b == PyIndex(hi, Len(s))
    IN  IF a >= b THEN << >> ELSE SubSeq(s, a + 1, b)

\* Faulty variant: the byte order is kept.
NotReversed(s) == s

\* s[::-1]
Reversed(s) == [i \in 1..Len(s) |-> s[Len(s) + 1 - i]]

\* bytes.decode("ISO-8859-1"): byte b becomes the character U+00b; no byte
\* is rejected, so the except branch of lines 49-50 is never taken.
Latin1Char(b) == b
Latin1Decode(bs) == [i \in 1..Len(bs) |-> Latin1Char(bs[i])]

\* None and Some(v) for the optional locals.
None == [some |-> FALSE, val |-> << >>]
Some(v) == [some |-> TRUE, val |-> v]
\* Truthiness of an optional str: None and "" are both false.
Truthy(o) == o.some /\ o.val # << >>

-----------------------------------------------------------------------------
(* int(str), base 10, on a str of Latin-1 characters *)

IsSpace(c) == c \in {9, 10, 11, 12, 13, 28, 29, 30, 31, 32, 133, 160}
IsDigit(c) == c >= 48 /\ c <= 57
Underscore == 95
Plus == 43
Minus == 45

RECURSIVE LStrip(_)
LStrip(s) == IF s # << >> /\ IsSpace(Head(s)) THEN LStrip(Tail(s)) ELSE s

RECURSIVE RStrip(_)
RStrip(s) ==
    IF s # << >> /\ IsSpace(s[Len(s)]) THEN RStrip(SubSeq(s, 1, Len(s) - 1)) ELSE s

\* Digits, where a single underscore may stand between two digits.
DigitsOk(d) ==
    /\ d # << >>
    /\ \A i \in 1..Len(d) :
          \/ IsDigit(d[i])
          \/ /\ d[i] = Underscore
             /\ i > 1 /\ i < Len(d)
             /\ IsDigit(d[i - 1]) /\ IsDigit(d[i + 1])

RECURSIVE DigitsValue(_, _)
DigitsValue(d, acc) ==
    IF d = << >> THEN acc
    ELSE IF Head(d) = Underscore THEN DigitsValue(Tail(d), acc)
    ELSE DigitsValue(Tail(d), acc * 10 + (Head(d) - 48))

\* Faulty variant: no white space is stripped.
PyIntNoStrip(s) ==
    LET signed == s # << >> /\ Head(s) \in {Plus, Minus}
        d == IF signed THEN Tail(s) ELSE s
    IN  IF DigitsOk(d)
        THEN [ok |-> TRUE,
              val |-> IF signed /\ Head(s) = Minus
                      THEN 0 - DigitsValue(d, 0) ELSE DigitsValue(d, 0)]
        ELSE [ok |-> FALSE, val |-> 0]

\* Faulty variant: a text that is no number counts as 0 instead of raising.
PyIntDefaultZero(s) ==
    LET t == RStrip(LStrip(s))
        signed == t # << >> /\ Head(t) \in {Plus, Minus}
        d == IF signed THEN Tail(t) ELSE t
    IN  IF DigitsOk(d)
        THEN [ok |-> TRUE,
              val |-> IF signed /\ Head(t) = Minus
                      THEN 0 - DigitsValue(d, 0) ELSE DigitsValue(d, 0)]
        ELSE [ok |-> TRUE, val |-> 0]

\* int(s): [ok |-> FALSE] stands for ValueError.
PyInt(s) ==
    LET t == RStrip(LStrip(s))
        signed == t # << >> /\ Head(t) \in {Plus, Minus}
        d == IF signed THEN Tail(t) ELSE t
    IN  IF DigitsOk(d)
        THEN [ok |-> TRUE,
              val |-> IF signed /\ Head(t) = Minus
                      THEN 0 - DigitsValue(d, 0) ELSE DigitsValue(d, 0)]
        ELSE [ok |-> FALSE, val |-> 0]

-----------------------------------------------------------------------------
(* base64.b64encode(...).decode('utf-8') and bytes.hex() *)

B64Char(v) ==
    IF v < 26 THEN 65 + v
    ELSE IF v < 52 THEN 97 + (v - 26)
    ELSE IF v < 62 THEN 48 + (v - 52)
    ELSE IF v = 62 THEN 43 ELSE 47

B64Pad == 61

\* Groups of three bytes become four characters; a last group of one or
\* two bytes is zero-filled and its unused characters are '='.
B64Encode(bs) ==
    LET n == Len(bs)
        byte(j) == IF j <= n THEN bs[j] ELSE 0
    IN  [i \in 1..(4 * ((n + 2) \div 3)) |->
            LET g == 3 * ((i - 1) \div 4)
                pos == (i - 1) % 4
            IN  IF pos = 0 THEN B64Char(byte(g + 1) \div 4)
                ELSE IF pos = 1
                THEN B64Char((byte(g + 1) % 4) * 16 + byte(g + 2) \div 16)
                ELSE IF pos = 2
                THEN IF g + 2 > n THEN B64Pad
                     ELSE B64Char((byte(g + 2) % 16) * 4 + byte(g + 3) \div 64)
                ELSE IF g + 3 > n THEN B64Pad
                     ELSE B64Char(byte(g + 3) % 64)]

HexDigit(v) == IF v < 10 THEN 48 + v ELSE 87 + v

HexEncode(bs) ==
    [i \in 1..(2 * Len(bs)) |->
        IF i % 2 = 1 THEN HexDigit(bs[(i + 1) \div 2] \div 16)
        ELSE HexDigit(bs[i \div 2] % 16)]

-----------------------------------------------------------------------------
(* The stages of decode_secure_qr *)

\* Lines 35-40: the scan loop, resumed at offset i with the offsets found
\* so far.  The loop walks forward to the next delimiter byte, appends its
\* offset, and breaks as soon as the 16th offset is appended.
NextDelimiter(raw, i) ==
    IF \E j \in i..(Len(raw) - 1) : raw[j + 1] = delimiter
    THEN CHOOSE j \in i..(Len(raw) - 1) :
            /\ raw[j + 1] = delimiter
            /\ \A k \in i..(j - 1) : raw[k + 1] # delimiter
    ELSE -1

\* Faulty variant: the loop without its break.
RECURSIVE ScanFromNoBreak(_, _, _)
ScanFromNoBreak(raw, i, found) ==
    LET j == NextDelimiter(raw, i)
    IN  IF j < 0 THEN found
        ELSE ScanFromNoBreak(raw, j + 1, Append(found, j))

RECURSIVE ScanFrom(_, _, _)
ScanFrom(raw, i, found) ==
    LET j == NextDelimiter(raw, i)
    IN  IF j < 0 THEN found
        ELSE IF Len(found) + 1 = NumDelimiters
             THEN Append(found, j)
             ELSE ScanFrom(raw, j + 1, Append(found, j))

ScanDelimiters(raw) == ScanFrom(raw, 0, << >>)

\* Faulty variant: the threshold one too low.
NotEnoughDelimitersOffByOne(positions) == Len(positions) < NumDelimiters - 1

\* Line 41
NotEnoughDelimiters(positions) == Len(positions) < NumDelimiters

\* Faulty variant: start moves to pos instead of pos + 1.
RECURSIVE FieldsFromNoSkip(_, _, _, _)
FieldsFromNoSkip(raw, positions, k, start) ==
    IF k > Len(positions) THEN << >>
    ELSE << Latin1Decode(PySlice(raw, start, positions[k])) >>
            \o FieldsFromNoSkip(raw, positions, k + 1, positions[k])

\* Lines 44-52: one field per delimiter offset, start moving to pos + 1.
RECURSIVE FieldsFrom(_, _, _, _)
FieldsFrom(raw, positions, k, start) ==
    IF k > Len(positions) THEN << >>
    ELSE << Latin1Decode(PySlice(raw, start, positions[k])) >>
            \o FieldsFrom(raw, positions, k + 1, positions[k] + 1)

ExtractTextFields(raw, positions) == FieldsFrom(raw, positions, 1, 0)

\* Line 62: dict(zip(keys, text_fields)); the key names are distinct.
KeyIndex(k) == CHOOSE i \in 1..Len(keys) : keys[i] = k
TextData(fields) ==
    [k \in {keys[i] : i \in 1..Len(keys)} |-> fields[KeyIndex(k)]]

\* Faulty variant: indicator 3 reserves one block only.
TailExtraOneBlock(ind) == IF ind \in {1, 2, 3} THEN BlockLen ELSE 0

\* Lines 69-73
TailExtra(ind) ==
    IF ind = 3 THEN 2 * BlockLen
    ELSE IF ind \in {1, 2} THEN BlockLen
    ELSE 0

\* Lines 75-76
TailStart(raw, ind) == Len(raw) - (SignatureLen + TailExtra(ind))

\* Lines 78-79
PhotoB64(raw, positions, ind) ==
    B64Encode(PySlice(raw, positions[Len(positions)] + 1, TailStart(raw, ind)))

\* Lines 81-93
Mobile(raw, ind) ==
    IF ind \in {1, 3}
    THEN Some(HexEncode(Reversed(
             PySlice(raw, TailStart(raw, ind), TailStart(raw, ind) + BlockLen))))
    ELSE None

Email(raw, ind) ==
    IF ind = 3
    THEN Some(HexEncode(Reversed(
             PySlice(raw, TailStart(raw, ind) + BlockLen,
                          TailStart(raw, ind) + 2 * BlockLen))))
    ELSE IF ind = 2
    THEN Some(HexEncode(Reversed(
             PySlice(raw, TailStart(raw, ind), TailStart(raw, ind) + BlockLen))))
    ELSE None

\* Lines 95-102: the text fields, the photo, and each contact value that
\* is truthy.
BuildResult(data, photo, mobile, email) ==
    [k \in DOMAIN data \cup {"photo"}
           \cup (IF Truthy(mobile) THEN {"mobile"} ELSE {})
           \cup (IF Truthy(email) THEN {"email"} ELSE {}) |->
        IF k = "photo" THEN photo
        ELSE IF k = "mobile" /\ Truthy(mobile) THEN mobile.val
        ELSE IF k = "email" /\ Truthy(email) THEN email.val
        ELSE data[k]]

NoRecord == [k \in {} |-> << >>]
NoResponse == [k \in {} |-> << >>]

-----------------------------------------------------------------------------
(* The whole of decode_secure_qr from line 34 on, as one function of the   *)
(* buffer: the outcome the caller sees.                                    *)

DecodeOutcome(raw) ==
    LET positions == ScanDelimiters(raw)
        fields == ExtractTextFields(raw, positions)
        parsed == PyInt(fields[1])
    IN  IF NotEnoughDelimiters(positions) THEN [error |-> MsgNotEnough]
        ELSE IF Len(fields) # Len(keys) THEN [error |-> MsgFieldCount]
        ELSE IF ~parsed.ok THEN [error |-> MsgIndicator]
        ELSE [decoded_data |->
                 BuildResult(TextData(fields),
                             PhotoB64(raw, positions, parsed.val),
                             Mobile(raw, parsed.val),
                             Email(raw, parsed.val))]

-----------------------------------------------------------------------------
(* Input buffers *)

MaxPhoto == 3
NumPatterns == 2
PhotoBytes == {0, 77, 255}

\* Indicator texts that are a sign-and-digits literal, with their values.
IntTexts ==
    { [text |-> <<48>>, val |-> 0],        [text |-> <<49>>, val |-> 1],
      [text |-> <<50>>, val |-> 2],        [text |-> <<51>>, val |-> 3],
      [text |-> <<48, 51>>, val |-> 3],    [text |-> <<43, 50>>, val |-> 2],
      [text |-> <<45, 49>>, val |-> -1],   [text |-> <<55>>, val |-> 7],
      [text |-> <<49, 48>>, val |-> 10],   [text |-> <<48, 48>>, val |-> 0] }

\* Other contents of the first field: padded or grouped digits, and texts
\* that are no number at all.
OtherTexts ==
    { <<32, 49>>, <<51, 10>>, <<49, 95, 48>>, <<160, 50>>,
      << >>, <<97>>, <<97, 98, 99>>, <<49, 97>>, <<45>>, <<49, 95>>,
      <<95, 49>>, <<49, 95, 95, 48>>, <<32>>, <<49, 32, 48>>, <<179>>,
      <<43, 45, 49>>, <<49, 46, 48>> }

AllTexts == {t.text : t \in IntTexts} \cup OtherTexts

\* Field k of pattern p: a few bytes, none of them the delimiter.
FieldBytes(p, k) == [i \in 1..((p * k) % 3) |-> (k * 17 * p + i * 40) % 255]

FieldList(first, p) ==
    [k \in 1..NumDelimiters |-> IF k = 1 THEN first ELSE FieldBytes(p, k)]

\* The first n fields, each followed by the delimiter.
RECURSIVE Join(_, _)
Join(fields, n) ==
    IF n = 0 THEN << >>
    ELSE Join(fields, n - 1) \o fields[n] \o << delimiter >>

Photos == UNION { [1..n -> PhotoBytes] : n \in 0..MaxPhoto }

MobileBlock == [i \in 1..BlockLen |-> (i * 9 + 3) % 256]
EmailBlock == [i \in 1..BlockLen |-> (260 - 5 * i) % 256]
Signature == [i \in 1..SignatureLen |-> (i * 3) % 256]

\* Filler 0 never holds the delimiter; filler 1 holds it at offsets 1, 257.
Filler(kind, n) ==
    [i \in 1..n |-> IF kind = 0 THEN (i * 7) % 251 ELSE (i * 89 + 77) % 256]

TotalLens == {0, 16, 20, 130, 200, 256, 273, 280, 287, 288, 289, 300,
              320, 321, 340, 352}

Take(s, n) == SubSeq(s, 1, Min(n, Len(s)))

NoSource ==
    [wellformed |-> FALSE, fields |-> << >>, photo |-> << >>,
     mobile |-> << >>, email |-> << >>, declared |-> 0]

\* A container laid out as the decoder expects it: 16 delimited fields,
\* the photo, the contact blocks the indicator declares, the signature.
WellFormedInput ==
    \E it \in IntTexts, p \in 0..(NumPatterns - 1), photo \in Photos :
        LET fields == FieldList(it.text, p)
            mobile == IF it.val \in {1, 3} THEN MobileBlock ELSE << >>
            email == IF it.val \in {2, 3} THEN EmailBlock ELSE << >>
        IN  /\ decompressed =
                  Join(fields, NumDelimiters) \o photo \o mobile \o email
                      \o Signature
            /\ source = [wellformed |-> TRUE, fields |-> fields,
                         photo |-> photo, mobile |-> mobile,
                         email |-> email, declared |-> it.val]

\* Any other buffer: some delimited fields and filler, cut to a length.
ArbitraryInput ==
    \E first \in AllTexts, n \in {1, NumDelimiters - 1, NumDelimiters},
       kind \in {0, 1}, total \in TotalLens :
        /\ decompressed =
              Take(Join(FieldList(first, 0), n) \o Filler(kind, total), total)
        /\ source = NoSource

Init ==
    /\ WellFormedInput \/ ArbitraryInput
    /\ delimiter_positions = << >>
    /\ text_fields = << >>
    /\ indicator = 0
    /\ result = NoRecord
    /\ error = ""
    /\ response = NoResponse
    /\ pc = "scan"

-----------------------------------------------------------------------------
(* Actions *)

\* Lines 34-42
FindDelimiters ==
    /\ pc = "scan"
    /\ delimiter_positions' = ScanDelimiters(decompressed)
    /\ IF NotEnoughDelimiters(delimiter_positions')
       THEN /\ error' = MsgNotEnough
            /\ pc' = "raised"
       ELSE /\ error' = error
            /\ pc' = "fields"
    /\ UNCHANGED <<decompressed, text_fields, indicator, result, response, source>>

\* Lines 44-62
ExtractFields ==
    /\ pc = "fields"
    /\ text_fields' = ExtractTextFields(decompressed, delimiter_positions)
    /\ IF Len(text_fields') # Len(keys)
       THEN /\ error' = MsgFieldCount
            /\ pc' = "raised"
       ELSE /\ error' = error
            /\ pc' = "indicator"
    /\ UNCHANGED <<decompressed, delimiter_positions, indicator, result,
                   response, source>>

\* Lines 64-67
ParseIndicator ==
    /\ pc = "indicator"
    /\ LET parsed == PyInt(TextData(text_fields)["indicator"])
       IN  IF parsed.ok
           THEN /\ indicator' = parsed.val
                /\ error' = error
                /\ pc' = "tail"
           ELSE /\ indicator' = indicator
                /\ error' = MsgIndicator
                /\ pc' = "raised"
    /\ UNCHANGED <<decompressed, delimiter_positions, text_fields, result,
                   response, source>>

\* Lines 69-102
ExtractTail ==
    /\ pc = "tail"
    /\ result' = BuildResult(TextData(text_fields),
                             PhotoB64(decompressed, delimiter_positions, indicator),
                             Mobile(decompressed, indicator),
                             Email(decompressed, indicator))
    /\ pc' = "returned"
    /\ UNCHANGED <<decompressed, delimiter_positions, text_fields, indicator,
                   error, response, source>>

\* upload_qr, lines 132-133
RespondDecoded ==
    /\ pc = "returned"
    /\ response' = [decoded_data |-> result]
    /\ pc' = "done"
    /\ UNCHANGED <<decompressed, delimiter_positions, text_fields, indicator,
                   result, error, source>>

\* upload_qr, lines 134-135
RespondError ==
    /\ pc = "raised"
    /\ response' = [error |-> error]
    /\ pc' = "done"
    /\ UNCHANGED <<decompressed, delimiter_positions, text_fields, indicator,
                   result, error, source>>

Next ==
    \/ FindDelimiters
    \/ ExtractFields
    \/ ParseIndicator
    \/ ExtractTail
    \/ RespondDecoded
    \/ RespondError

Spec == Init /\ [][Next]_vars

-----------------------------------------------------------------------------
(* Vocabulary of the properties, stated without the decoder's operators *)

\* Offsets of the bytes equal to 255.
Sentinels(raw) == {i \in 0..(Len(raw) - 1) : raw[i + 1] = 255}

\* A finite set of numbers in ascending order.
RECURSIVE Ascending(_)
Ascending(S) ==
    IF S = {} THEN << >>
    ELSE LET m == CHOOSE x \in S : \A y \in S : x <= y
         IN  << m >> \o Ascending(S \ {m})

\* The offset of the n-th sentinel, for n within their number.
NthSentinel(raw, n) == Ascending(Sentinels(raw))[n]

HasSixteen(raw) == Cardinality(Sentinels(raw)) >= 16
D16(raw) == NthSentinel(raw, 16)

\* The bytes before the first sentinel.
IndicatorField(raw) == SubSeq(raw, 1, NthSentinel(raw, 1))

\* A base-10 integer literal: an optional sign and one or more digits.
IsBase10Integer(t) ==
    LET from == IF t # << >> /\ t[1] \in {43, 45} THEN 2 ELSE 1
    IN  /\ Len(t) >= from
        /\ \A i \in from..Len(t) : t[i] \in 48..57

\* What int() takes: a base-10 integer literal in which single underscores
\* may separate digits, with white space allowed around it.
IsPaddedInteger(t) ==
    \E a \in 1..Len(t), b \in 1..Len(t) :
        /\ a <= b
        /\ \A i \in 1..(a - 1) : IsSpace(t[i])
        /\ \A i \in (b + 1)..Len(t) : IsSpace(t[i])
        /\ LET from == IF t[a] \in {43, 45} THEN a + 1 ELSE a
           IN  /\ from <= b
               /\ t[from] \in 48..57 /\ t[b] \in 48..57
               /\ \A i \in from..b : t[i] \in 48..57 \/ t[i] = 95
               /\ \A i \in from..(b - 1) : ~(t[i] = 95 /\ t[i + 1] = 95)

\* The contact bytes an indicator value declares.
Extra(ind) == CASE ind = 3 -> 64 [] ind \in {1, 2} -> 32 [] OTHER -> 0

Failed(msg) == pc = "done" /\ response = [error |-> msg]
Returned == pc = "done" /\ DOMAIN response = {"decoded_data"}
Record == response.decoded_data

SchemaKeys == {keys[i] : i \in 1..Len(keys)}

IsLowerHex(t) == \A i \in 1..Len(t) : t[i] \in (48..57) \cup (97..102)

HexVal(c) == IF c <= 57 THEN c - 48 ELSE c - 87
\* The bytes a hex string stands for.
HexDecode(t) ==
    [i \in 1..(Len(t) \div 2) |-> HexVal(t[2 * i - 1]) * 16 + HexVal(t[2 * i])]

B64Val(c) ==
    IF c >= 65 /\ c <= 90 THEN c - 65
    ELSE IF c >= 97 /\ c <= 122 THEN c - 71
    ELSE IF c >= 48 /\ c <= 57 THEN c + 4
    ELSE IF c = 43 THEN 62
    ELSE IF c = 47 THEN 63
    ELSE 0
\* The bytes a padded base64 string stands for.
B64Decode(t) ==
    LET pads == Cardinality({i \in 1..Len(t) : t[i] = 61})
    IN  [j \in 1..(3 * (Len(t) \div 4) - pads) |->
            LET g == 4 * ((j - 1) \div 3)
                pos == (j - 1) % 3
            IN  IF pos = 0 THEN B64Val(t[g + 1]) * 4 + B64Val(t[g + 2]) \div 16
                ELSE IF pos = 1
                THEN (B64Val(t[g + 2]) % 16) * 16 + B64Val(t[g + 3]) \div 4
                ELSE (B64Val(t[g + 3]) % 4) * 64 + B64Val(t[g + 4])]

\* Bytes of raw at offsets lo .. hi-1.
Range(raw, lo, hi) == [i \in 1..(hi - lo) |-> raw[lo + i]]

-----------------------------------------------------------------------------
(* C2 *)

\* C2: a buffer with fewer than 16 bytes equal to 255 is answered with the
\* "not enough delimiters" error and no record, whatever its other bytes.
C2_FewSentinelsFail ==
    (pc = "done" /\ ~HasSixteen(decompressed)) =>
        /\ response = [error |-> MsgNotEnough]
        /\ result = NoRecord

C2_Witness ==
    /\ Failed(MsgNotEnough)
    /\ Cardinality(Sentinels(decompressed)) = 15
    /\ Len(decompressed) > SignatureLen

-----------------------------------------------------------------------------
(* C3 *)

\* C3 as stated: with 16 sentinels, decode fails with the invalid-indicator
\* error exactly when the indicator field is not a base-10 integer.
C3_AsStated ==
    (pc = "done" /\ HasSixteen(decompressed)) =>
        (response = [error |-> MsgIndicator]
            <=> ~IsBase10Integer(IndicatorField(decompressed)))

\* C3 amended: with 16 sentinels, decode fails with the invalid-indicator
\* error, and returns no record, exactly when the indicator field is not
\* what int() takes: white space around an optional sign and digits that
\* single underscores may separate.  A base-10 integer never fails so.
C3_IndicatorParse ==
    (pc = "done" /\ HasSixteen(decompressed)) =>
        /\ (response = [error |-> MsgIndicator] /\ result = NoRecord)
              <=> ~IsPaddedInteger(IndicatorField(decompressed))
        /\ IsBase10Integer(IndicatorField(decompressed))
              => response # [error |-> MsgIndicator]

C3_Witness ==
    /\ Returned
    /\ HasSixteen(decompressed)
    /\ IndicatorField(decompressed) = <<32, 49>>
    /\ ~IsBase10Integer(IndicatorField(decompressed))

-----------------------------------------------------------------------------
(* C1 *)

\* C1: with 16 sentinels and an integer indicator, a buffer whose
\* tail_start = len - (256 + extra) is at most the offset after the 16th
\* sentinel is answered with a truncation error and no record.
C1_TruncatedFails ==
    (/\ pc = "done"
     /\ HasSixteen(decompressed)
     /\ IsPaddedInteger(IndicatorField(decompressed))
     /\ Len(decompressed) - (256 + Extra(indicator)) <= D16(decompressed) + 1) =>
        /\ DOMAIN response = {"error"}
        /\ response.error \notin {MsgNotEnough, MsgFieldCount, MsgIndicator}
        /\ result = NoRecord

-----------------------------------------------------------------------------
(* C4 *)

\* C4: a returned record has exactly the 16 schema keys and photo, mobile
\* iff the indicator is 1 or 3, email iff it is 2 or 3, and each contact
\* value is 64 lowercase hexadecimal characters.
C4_KeySet ==
    Returned =>
        /\ DOMAIN Record =
              SchemaKeys \cup {"photo"}
                  \cup (IF indicator \in {1, 3} THEN {"mobile"} ELSE {})
                  \cup (IF indicator \in {2, 3} THEN {"email"} ELSE {})
        /\ \A k \in DOMAIN Record \cap {"mobile", "email"} :
              Len(Record[k]) = 64 /\ IsLowerHex(Record[k])

-----------------------------------------------------------------------------
(* C5 *)

\* C5: decoding a container built from 16 texts, a photo blob, the contact
\* blocks its indicator declares and a signature returns every text
\* unchanged, a photo that base64-decodes to the blob, and contact values
\* that are the hex of the reversed blocks.
C5_RoundTrip ==
    (pc = "done" /\ source.wellformed) =>
        /\ Returned
        /\ \A k \in 1..16 : Record[keys[k]] = source.fields[k]
        /\ B64Decode(Record["photo"]) = source.photo
        /\ Len(Record["photo"]) = 4 * ((Len(source.photo) + 2) \div 3)
        /\ "mobile" \in DOMAIN Record <=> source.declared \in {1, 3}
        /\ "email" \in DOMAIN Record <=> source.declared \in {2, 3}
        /\ source.declared \in {1, 3} =>
              /\ IsLowerHex(Record["mobile"])
              /\ HexDecode(Record["mobile"]) =
                    [i \in 1..32 |-> source.mobile[33 - i]]
        /\ source.declared \in {2, 3} =>
              /\ IsLowerHex(Record["email"])
              /\ HexDecode(Record["email"]) =
                    [i \in 1..32 |-> source.email[33 - i]]

C5_Witness ==
    /\ Returned
    /\ source.wellformed
    /\ source.declared = 3
    /\ source.photo = <<77, 255, 0>>
    /\ source.fields[2] # << >>

-----------------------------------------------------------------------------
(* C6 *)

MaxProbe == 4
ProbeBytes == {0, 255}

\* The buffer with the byte at offset p replaced by v.
WithByte(raw, p, v) == [raw EXCEPT ![p + 1] = v]

\* The buffer with every byte after offset d replaced by v.
WithSuffix(raw, d, v) == [i \in 1..Len(raw) |-> IF i > d + 1 THEN v ELSE raw[i]]

\* The offsets after d whose byte is replaced one at a time: the first
\* MaxProbe of them, those of the later sentinels, and the last.
ProbeOffsets(raw, d) ==
    {p \in (d + 1)..(Len(raw) - 1) :
        p <= d + MaxProbe \/ raw[p + 1] = 255 \/ p = Len(raw) - 1}

\* The buffers that differ from raw after offset d only.
ChangedAfter(raw, d) ==
    {WithByte(raw, p, v) : p \in ProbeOffsets(raw, d), v \in ProbeBytes}
        \cup {WithSuffix(raw, d, v) : v \in ProbeBytes}

ScanSucceeded == pc # "scan" /\ error # MsgNotEnough

\* C6: after a successful scan the delimiter index holds 16 strictly
\* ascending offsets, those of the first 16 sentinels, and replacing bytes
\* after the 16th sentinel changes neither the index nor the fields.
C6_FirstSixteen ==
    ScanSucceeded =>
        /\ Len(delimiter_positions) = 16
        /\ \A k \in 1..15 : delimiter_positions[k] < delimiter_positions[k + 1]
        /\ {delimiter_positions[k] : k \in 1..16} =
              {i \in Sentinels(decompressed) : i <= delimiter_positions[16]}
        /\ pc \notin {"scan", "fields"} =>
              text_fields = ExtractTextFields(decompressed, delimiter_positions)
        /\ LET fields == ExtractTextFields(decompressed, delimiter_positions)
           IN  \A other \in ChangedAfter(decompressed, delimiter_positions[16]) :
                  /\ ScanDelimiters(other) = delimiter_positions
                  /\ ExtractTextFields(other, ScanDelimiters(other)) = fields

\* A scan that succeeded on a buffer with a sentinel after the 16th.
C6_Witness ==
    /\ pc = "indicator"
    /\ Len(delimiter_positions) = 16
    /\ Cardinality(Sentinels(decompressed)) > 16

-----------------------------------------------------------------------------
(* C7 *)

\* C7: the error reported is that of the earliest failing stage (a buffer
\* short of sentinels reports that even if its first field is no number; a
\* field that is no number is reported whatever the buffer's length), and
\* a response that reports an error carries no record.
C7_FirstFailure ==
    pc = "done" =>
        /\ ~HasSixteen(decompressed) => response = [error |-> MsgNotEnough]
        /\ (HasSixteen(decompressed)
              /\ ~IsPaddedInteger(IndicatorField(decompressed)))
              => response = [error |-> MsgIndicator]
        /\ "error" \in DOMAIN response =>
              DOMAIN response = {"error"} /\ result = NoRecord

C7_Witness ==
    /\ Failed(MsgNotEnough)
    /\ Cardinality(Sentinels(decompressed)) = 15
    /\ IndicatorField(decompressed) = <<97, 98, 99>>

-----------------------------------------------------------------------------
(* C8 *)

\* C8: when the 16th sentinel at offset d has d + 1 <= tail_start, the
\* photo is the base64 of raw[d+1 .. tail_start), mobile is read from
\* raw[tail_start .. +32), email from the 32 bytes after the mobile block
\* or from tail_start when there is none, and photo, contact blocks and
\* the final 256 bytes tile the bytes after the 16th sentinel.
C8_TailLayout ==
    LET raw == decompressed
        d == D16(raw)
        ts == Len(raw) - (256 + Extra(indicator))
        es == IF indicator = 3 THEN ts + 32 ELSE ts
    IN  (Returned /\ d + 1 <= ts) =>
           /\ B64Decode(Record["photo"]) = Range(raw, d + 1, ts)
           /\ "mobile" \in DOMAIN Record <=> indicator \in {1, 3}
           /\ "email" \in DOMAIN Record <=> indicator \in {2, 3}
           /\ indicator \in {1, 3} =>
                 HexDecode(Record["mobile"]) = [i \in 1..32 |-> raw[ts + 33 - i]]
           /\ indicator \in {2, 3} =>
                 HexDecode(Record["email"]) = [i \in 1..32 |-> raw[es + 33 - i]]
           /\ Len(B64Decode(Record["photo"]))
                 + (IF "mobile" \in DOMAIN Record
                    THEN Len(Record["mobile"]) \div 2 ELSE 0)
                 + (IF "email" \in DOMAIN Record
                    THEN Len(Record["email"]) \div 2 ELSE 0)
                 + 256 = Len(raw) - (d + 1)

C8_Witness ==
    /\ Returned
    /\ indicator = 3
    /\ D16(decompressed) + 1 < Len(decompressed) - (256 + 64)
    /\ Cardinality(Sentinels(decompressed)) > 16

-----------------------------------------------------------------------------
(* C9 *)

OtherSignatures == { [i \in 1..256 |-> 0], [i \in 1..256 |-> 255] }

\* C9: a buffer that differs from this one only in its final 256 bytes,
\* the first 16 sentinels lying before them, decodes to the same outcome.
C9_SignatureIgnored ==
    (/\ pc = "done"
     /\ HasSixteen(decompressed)
     /\ D16(decompressed) < Len(decompressed) - 256) =>
        \A sig \in OtherSignatures :
            DecodeOutcome(SubSeq(decompressed, 1, Len(decompressed) - 256) \o sig)
                = response

-----------------------------------------------------------------------------
(* C10 *)

FieldsExtracted == ScanSucceeded /\ pc \notin {"scan", "fields"}

\* C10: after a successful scan the mapper yields exactly 16 fields, none
\* holding the character of byte 255; field k is the bytes strictly
\* between sentinels k-1 and k, and the fields, each followed by byte 255,
\* spell the buffer up to and including the 16th sentinel.
C10_SixteenFields ==
    FieldsExtracted =>
        /\ Len(text_fields) = 16
        /\ error # MsgFieldCount
        /\ \A k \in 1..16 : \A i \in 1..Len(text_fields[k]) :
              text_fields[k][i] # 255
        /\ LET at == Ascending(Sentinels(decompressed))
           IN  /\ \A k \in 1..16 :
                     text_fields[k] =
                        Range(decompressed,
                              IF k = 1 THEN 0 ELSE at[k - 1] + 1, at[k])
               /\ Join(text_fields, 16) = SubSeq(decompressed, 1, at[16] + 1)

C10_Witness ==
    /\ pc = "tail"
    /\ Len(text_fields) = 16
    /\ Len(text_fields[2]) = 2
    /\ text_fields[3] = << >>

====
